---- MODULE Spec2Model ----
(***************************************************************************)
(* One run of gen.py or of gen_html.py: the scripts that list the          *)
(* repositories a user starred, keep those the user contributed to, group  *)
(* them by topic, and print one search link per topic with at least two    *)
(* repositories.                                                           *)
(*                                                                         *)
(* Python strings are sequences of code points, so that `<` on strings is  *)
(* the lexicographic order Python's sorted() uses.  The remote API is the  *)
(* environment: every requests.get either raises (a transport failure) or  *)
(* returns a response with a status and a body, drawn from small sets.     *)
(***************************************************************************)
EXTENDS Integers, Sequences, FiniteSets, TLC

VARIABLES
    script,           \* which file is run: "gen.py" or "gen_html.py"
    env,              \* os.environ: GITHUB_TOKEN, GITHUB_USER, GITHUB_GEN_HTML
    pc,               \* position in the module-level code
    username,         \* gen.py:46
    generate_html,    \* gen.py:49 (truthiness of the value read)
    starred_repos_url,\* gen.py:93,104: 0 is None, n > 0 the URL of page n
    starred_repos,    \* gen.py:92,108
    repos_with_stars, \* gen.py:111
    repos_with_topics,\* gen_html.py:103
    i,                \* position of the Step 2 loop in starred_repos
    j,                \* position of the Step 3 loop in the aggregated list
    forked_topics,    \* gen.py:131
    topic_to_repos,   \* gen.py:146: a dict, as its items in insertion order
    sorted_topics,    \* gen.py:159
    k,                \* position of the Step 5 loop in sorted_topics
    out,              \* the lines printed: format, topic, count, query
    trace,            \* history: every requests.get issued, with its outcome
    effective         \* history: what get_effective_topics returned, per repo

vars == <<script, env, pc, username, generate_html, starred_repos_url,
          starred_repos, repos_with_stars, repos_with_topics, i, j,
          forked_topics, topic_to_repos, sorted_topics, k, out, trace,
          effective>>

----------------------------------------------------------------------------
(* Bounds of the model. *)

\* The star listing returns at most this many repositories in all.
MaxRepos == 3
\* A page of the star listing carries at most this many repositories, and a
\* page that links to a next page carries exactly this many.
PerPage == 2

----------------------------------------------------------------------------
(* Strings, as code points. *)

None == <<>>

namin == <<110, 97, 109, 105, 110>>
Namin == <<78, 97, 109, 105, 110>>
acme  == <<97, 99, 109, 101>>
other == <<111, 116, 104, 101, 114>>
foo   == <<102, 111, 111>>
bar   == <<98, 97, 114>>
baz   == <<98, 97, 122>>
qux   == <<113, 117, 120>>
ai    == <<97, 105>>
cli   == <<99, 108, 105>>
rust  == <<114, 117, 115, 116>>
token == <<116>>
one   == <<49>>

Min(a, b) == IF a <= b THEN a ELSE b

\* Python's str.__lt__: the first differing code point decides, a proper
\* prefix is smaller.
StrLess(a, b) ==
    \E n \in 1..(Min(Len(a), Len(b)) + 1) :
        /\ \A m \in 1..(n - 1) : a[m] = b[m]
        /\ \/ n > Len(a) /\ n <= Len(b)
           \/ n <= Len(a) /\ n <= Len(b) /\ a[n] < b[n]

Range(s) == {s[n] : n \in 1..Len(s)}

----------------------------------------------------------------------------
(* The remote API: what each endpoint can answer. *)

Repo(o, n, t) == [owner |-> o, name |-> n, topics |-> t]

\* The repositories a page of the star listing can carry.
Catalogue ==
    { Repo(acme, foo, <<>>),
      Repo(acme, bar, <<cli, ai>>),
      Repo(other, baz, <<ai, cli>>),
      Repo(other, qux, <<cli>>) }

\* repo['full_name']: "<owner>/<name>"
full_name(repo) == repo.owner \o <<47>> \o repo.name

Raised == [error |-> TRUE, status |-> 0, json |-> FALSE, body |-> <<>>, next |-> 0]
Resp(s, js, b, nx) == [error |-> FALSE, status |-> s, json |-> js, body |-> b, next |-> nx]

\* The pages of n repositories: one response lists a repository once.
Pages(n) ==
    {b \in [1..n -> Catalogue] : \A x, y \in 1..n : x # y => b[x] # b[y]}

\* GET /users/<username>/starred, page p, with `room` repositories left: the
\* request fails, or is answered by an error with or without a JSON body, by
\* a last page, or by a full page with a `next` link.
StarredResponses(p, room) ==
    {Raised, Resp(500, TRUE, <<>>, 0), Resp(502, FALSE, <<>>, 0)}
    \cup {Resp(200, TRUE, b, 0) :
            b \in UNION {Pages(n) : n \in 0..Min(PerPage, room)}}
    \cup IF PerPage <= room
         THEN {Resp(200, TRUE, b, p + 1) : b \in Pages(PerPage)}
         ELSE {}

\* GET /repos/<owner>/<repo>/contributors: the logins of the body.
ContributorResponses ==
    {Raised,
     Resp(200, TRUE, <<acme, namin>>, 0),
     Resp(200, TRUE, <<Namin, acme>>, 0),
     Resp(404, TRUE, <<>>, 0)}

\* GET /repos/<username>/<name>: the topics of the repository in the body.
RepoResponses ==
    {Raised,
     Resp(200, TRUE, <<rust, cli>>, 0),
     Resp(200, TRUE, <<>>, 0),
     Resp(404, TRUE, <<>>, 0),
     Resp(500, TRUE, <<>>, 0),
     Resp(502, FALSE, <<>>, 0)}

Request(e, o, n, p) == [endpoint |-> e, owner |-> o, name |-> n, page |-> p]
Call(req, resp) == [req |-> req, resp |-> resp]

----------------------------------------------------------------------------
(* Startup: module-level code before Step 1. *)

Init ==
    /\ script \in {"gen.py", "gen_html.py"}
    /\ env \in [GITHUB_TOKEN : {None, token},
                GITHUB_USER : {None, acme},
                GITHUB_GEN_HTML : {None, one}]
    /\ (script = "gen_html.py" => env.GITHUB_GEN_HTML = None)
    /\ pc = "start"
    /\ username = None
    /\ generate_html = FALSE
    /\ starred_repos_url = 0
    /\ starred_repos = <<>>
    /\ repos_with_stars = <<>>
    /\ repos_with_topics = <<>>
    /\ i = 1
    /\ j = 1
    /\ forked_topics = {}
    /\ topic_to_repos = <<>>
    /\ sorted_topics = <<>>
    /\ k = 1
    /\ out = <<>>
    /\ trace = <<>>
    /\ effective = <<>>

\* os.environ['GITHUB_TOKEN']: a missing key raises KeyError.
TokenLookupGet(e) == FALSE
TokenLookupRaises(e) == e.GITHUB_TOKEN = None

\* os.environ.get(key, default)
EnvGet(e, key, default) == IF e[key] = None THEN default ELSE e[key]

Startup ==
    /\ pc = "start"
    /\ IF TokenLookupRaises(env)
       THEN /\ pc' = "crashed"
            /\ UNCHANGED <<username, generate_html, starred_repos_url>>
       ELSE /\ username' = EnvGet(env, "GITHUB_USER", namin)
            /\ generate_html' = (script = "gen.py" /\ env.GITHUB_GEN_HTML # None)
            /\ starred_repos_url' = 1
            /\ pc' = "starred"
    /\ UNCHANGED <<script, env, starred_repos, repos_with_stars,
                   repos_with_topics, i, j, forked_topics, topic_to_repos,
                   sorted_topics, k, out, trace, effective>>

Crash ==
    /\ pc' = "crashed"
    /\ UNCHANGED <<starred_repos_url, starred_repos, repos_with_stars,
                   repos_with_topics, i, j, forked_topics, topic_to_repos,
                   sorted_topics, k, out, effective>>

\* The list Step 3 iterates over.
Aggregated(rws, rwt) == IF script = "gen.py" THEN rws ELSE rwt

\* Where the module-level code is once Step 1 returned `starred`.
AfterStarred(starred) == IF starred = <<>> THEN "sort" ELSE "filter"

\* Where the module-level code is once Step 2 consumed starred_repos[idx - 1].
AfterFilter(idx, rws, rwt) ==
    IF idx <= Len(starred_repos) THEN "filter"
    ELSE IF Aggregated(rws, rwt) = <<>> THEN "sort" ELSE "aggregate"

----------------------------------------------------------------------------
(* Step 1: get_all_starred_repos, one iteration of its while loop. *)

FetchStarredPage ==
    /\ pc = "starred"
    /\ \E resp \in StarredResponses(starred_repos_url, MaxRepos - Len(starred_repos)) :
        /\ trace' = Append(trace,
                Call(Request("starred", username, None, starred_repos_url), resp))
        /\ IF resp.error
           THEN Crash  \* requests.get raised
           ELSE IF resp.status # 200
           THEN IF ~resp.json
                THEN Crash  \* response.json() raised inside the print
                ELSE \* break
                     /\ pc' = AfterStarred(starred_repos)
                     /\ UNCHANGED <<starred_repos_url, starred_repos,
                                    repos_with_stars, repos_with_topics, i, j,
                                    forked_topics, topic_to_repos,
                                    sorted_topics, k, out, effective>>
           ELSE /\ starred_repos' = starred_repos \o resp.body
                /\ starred_repos_url' = resp.next
                /\ pc' = IF resp.next # 0 THEN "starred"
                         ELSE AfterStarred(starred_repos')
                /\ UNCHANGED <<repos_with_stars, repos_with_topics, i, j,
                               forked_topics, topic_to_repos, sorted_topics,
                               k, out, effective>>
    /\ UNCHANGED <<script, env, username, generate_html>>

----------------------------------------------------------------------------
(* Step 2: keep the repositories the user contributed to. *)

has_contributed_any_200(resp, user) == resp.status = 200
has_contributed_to_repo(resp, user) ==
    /\ resp.status = 200
    /\ \E n \in 1..Len(resp.body) : resp.body[n] = user

FilterStep ==
    /\ pc = "filter"
    /\ LET repo == starred_repos[i] IN
       \E resp \in ContributorResponses :
        /\ trace' = Append(trace,
                Call(Request("contributors", repo.owner, repo.name, 0), resp))
        /\ IF resp.error
           THEN Crash  \* requests.get raised
           ELSE LET hit == has_contributed_to_repo(resp, username)
                    rws == IF hit THEN Append(repos_with_stars, repo)
                           ELSE repos_with_stars
                    rwt == IF hit /\ script = "gen_html.py" /\ repo.topics # <<>>
                           THEN Append(repos_with_topics, repo)
                           ELSE repos_with_topics
                IN  /\ repos_with_stars' = rws
                    /\ repos_with_topics' = rwt
                    /\ i' = i + 1
                    /\ pc' = AfterFilter(i + 1, rws, rwt)
                    /\ UNCHANGED <<starred_repos_url, starred_repos, j,
                                   forked_topics, topic_to_repos,
                                   sorted_topics, k, out, effective>>
    /\ UNCHANGED <<script, env, username, generate_html>>

----------------------------------------------------------------------------
(* Step 3: group the repositories by effective topic. *)

\* The condition under which get_effective_topics asks for the user's
\* repository of the same name.
NeedsFallbackAnyOwner(repo, user) == repo.topics = <<>>
NeedsFallback(repo, user) == repo.topics = <<>> /\ repo.owner # user

\* forked_topics after get_effective_topics took user_topics from the fork.
ForkedAfterLocal(forked, user_topics) == forked
ForkedAfter(forked, user_topics) == forked \cup Range(user_topics)

HasTopic(index, topic) == \E n \in 1..Len(index) : index[n][1] = topic

\* if topic not in topic_to_repos: topic_to_repos[topic] = []
\* topic_to_repos[topic].append(repo)
AppendRepo(index, topic, repo) ==
    IF HasTopic(index, topic)
    THEN [n \in 1..Len(index) |->
            IF index[n][1] = topic
            THEN <<topic, Append(index[n][2], repo)>>
            ELSE index[n]]
    ELSE Append(index, <<topic, <<repo>>>>)

\* for topic in topics: ...
RECURSIVE AppendAll(_, _, _)
AppendAll(index, topics, repo) ==
    IF topics = <<>> THEN index
    ELSE AppendAll(AppendRepo(index, Head(topics), repo), Tail(topics), repo)

\* The loop body for `repo` once its topics are known.
Grouped(repo, topics, fallback) ==
    /\ topic_to_repos' = AppendAll(topic_to_repos, topics, repo)
    /\ effective' = Append(effective,
                           [topics |-> topics, wasForkFallback |-> fallback])
    /\ j' = j + 1
    /\ pc' = IF j + 1 <= Len(Aggregated(repos_with_stars, repos_with_topics))
             THEN "aggregate" ELSE "sort"
    /\ UNCHANGED <<starred_repos_url, starred_repos, repos_with_stars,
                   repos_with_topics, i, sorted_topics, k, out>>

AggregateStep ==
    /\ pc = "aggregate"
    /\ LET repo == Aggregated(repos_with_stars, repos_with_topics)[j] IN
       IF script = "gen.py" /\ NeedsFallback(repo, username)
       THEN \E resp \in RepoResponses :
            /\ trace' = Append(trace,
                    Call(Request("repo", username, repo.name, 0), resp))
            /\ IF resp.error
               THEN Crash  \* requests.get raised
               ELSE IF resp.status = 200
               THEN IF resp.body # <<>>
                    THEN /\ forked_topics' = ForkedAfter(forked_topics, resp.body)
                         /\ Grouped(repo, resp.body, TRUE)
                    ELSE /\ Grouped(repo, repo.topics, FALSE)
                         /\ UNCHANGED forked_topics
               ELSE IF resp.status = 404 \/ resp.json
               THEN /\ Grouped(repo, repo.topics, FALSE)
                    /\ UNCHANGED forked_topics
               ELSE Crash  \* response.json() raised inside the print
       ELSE /\ Grouped(repo, repo.topics, FALSE)
            /\ UNCHANGED <<forked_topics, trace>>
    /\ UNCHANGED <<script, env, username, generate_html>>

----------------------------------------------------------------------------
(* Step 4: sort the topics. *)

\* Whether the run prints the HTML cloud: gen_html.py always does, gen.py
\* when GITHUB_GEN_HTML is set to a non-empty value.
html_output == script = "gen_html.py" \/ generate_html

\* The sort key of an item (topic, repos) of topic_to_repos.
sorted_key_count_only(item) ==
    IF html_output THEN item[1] ELSE <<-Len(item[2]), <<>>>>
sorted_key(item) ==
    IF html_output THEN item[1] ELSE <<-Len(item[2]), item[1]>>

\* Python's `<` on two keys: on strings, or on (int, string) tuples.
KeyLess(a, b) ==
    IF html_output THEN StrLess(a, b)
    ELSE a[1] < b[1] \/ (a[1] = b[1] /\ StrLess(a[2], b[2]))

\* sorted(): stable, so an item goes after the items whose key is not larger.
Insert(s, x) ==
    LET p == Cardinality({n \in 1..Len(s) :
                            ~KeyLess(sorted_key(x), sorted_key(s[n]))})
    IN  SubSeq(s, 1, p) \o <<x>> \o SubSeq(s, p + 1, Len(s))

RECURSIVE sorted(_)
sorted(s) ==
    IF s = <<>> THEN <<>>
    ELSE Insert(sorted(SubSeq(s, 1, Len(s) - 1)), s[Len(s)])

Header == [format |-> "header", topic |-> None, count |-> 0, query |-> <<>>]

SortStep ==
    /\ pc = "sort"
    /\ sorted_topics' = sorted(topic_to_repos)
    /\ out' = IF html_output THEN out ELSE Append(out, Header)
    /\ pc' = IF sorted_topics' = <<>> THEN "done" ELSE "render"
    /\ UNCHANGED <<script, env, username, generate_html, starred_repos_url,
                   starred_repos, repos_with_stars, repos_with_topics, i, j,
                   forked_topics, topic_to_repos, k, trace, effective>>

----------------------------------------------------------------------------
(* Step 5: print one line per topic with at least two repositories. *)

\* One search qualifier, "<q>:<v>"; a query is its qualifiers joined by " ".
Tok(q, v) == [q |-> q, v |-> v]
true == <<116, 114, 117, 101>>

\* if len(repos) <= 1: continue
SkipTopicEmptyOnly(repos) == Len(repos) < 1
SkipTopic(repos) == Len(repos) <= 1

Owners(repos) == {repos[n].owner : n \in 1..Len(repos)}

\* sorted() of a set of strings.
RECURSIVE SortSet(_)
SortSet(S) ==
    IF S = {} THEN <<>>
    ELSE LET m == CHOOSE x \in S : \A y \in S \ {x} : StrLess(x, y)
         IN  <<m>> \o SortSet(S \ {m})

\* The owners in order of first appearance.
RECURSIVE FirstSeen(_)
FirstSeen(repos) ==
    IF repos = <<>> THEN <<>>
    ELSE LET front == FirstSeen(SubSeq(repos, 1, Len(repos) - 1))
             o == repos[Len(repos)].owner
         IN  IF o \in Range(front) THEN front ELSE Append(front, o)

\* gen.py: users = sorted(set([repo['owner']['login'] for repo in repos]))
users_unsorted(repos) == FirstSeen(repos)
users(repos) == SortSet(Owners(repos))

\* gen.py: `topic in forked_topics`
in_forked_topics(topic) == topic \in forked_topics

\* gen.py: search_text, before quote_plus
search_text(topic, repos) ==
    IF in_forked_topics(topic)
    THEN [n \in 1..Len(repos) |-> Tok("repo", full_name(repos[n]))]
    ELSE [n \in 1..Len(users(repos)) |-> Tok("user", users(repos)[n])]
         \o <<Tok("topic", topic), Tok("fork", true)>>

\* The orders in which a Python set may be iterated.
Orderings(S) == {s \in [1..Cardinality(S) -> S] : Range(s) = S}

\* gen_html.py: the query of search_url, percent-decoded, for one iteration
\* order `us` of the set users.
html_search_text(topic, us) ==
    [n \in 1..Len(us) |-> Tok("user", us[n])]
    \o <<Tok("fork", true), Tok("topic", topic)>>

Queries(topic, repos) ==
    IF script = "gen.py" THEN {search_text(topic, repos)}
    ELSE {html_search_text(topic, us) : us \in Orderings(Owners(repos))}

RenderStep ==
    /\ pc = "render"
    /\ LET topic == sorted_topics[k][1]
           repos == sorted_topics[k][2]
       IN  IF SkipTopic(repos)
           THEN UNCHANGED out
           ELSE \E q \in Queries(topic, repos) :
                out' = Append(out,
                    [format |-> IF html_output THEN "html" ELSE "markdown",
                     topic |-> topic, count |-> Len(repos), query |-> q])
    /\ k' = k + 1
    /\ pc' = IF k + 1 <= Len(sorted_topics) THEN "render" ELSE "done"
    /\ UNCHANGED <<script, env, username, generate_html, starred_repos_url,
                   starred_repos, repos_with_stars, repos_with_topics, i, j,
                   forked_topics, topic_to_repos, sorted_topics, trace,
                   effective>>

Next ==
    \/ Startup
    \/ FetchStarredPage
    \/ FilterStep
    \/ AggregateStep
    \/ SortStep
    \/ RenderStep

Spec == Init /\ [][Next]_vars

----------------------------------------------------------------------------
(* What the claims are stated over. *)

\* The lines of stdout that render a topic.
IsTopicLine(l) == l.format # "header"
Emitted == SelectSeq(out, IsTopicLine)

\* TopicIndex[t], for a topic t that has an entry.
ReposOf(t) ==
    topic_to_repos[CHOOSE n \in 1..Len(topic_to_repos) : topic_to_repos[n][1] = t][2]

Count(s, x) == Cardinality({n \in 1..Len(s) : s[n] = x})

IsStarredCall(c) == c.req.endpoint = "starred"
IsContributorsCall(c) == c.req.endpoint = "contributors"
StarredCalls == SelectSeq(trace, IsStarredCall)
\* The n-th contributor lookup is the one for starred_repos[n].
ContributorCalls == SelectSeq(trace, IsContributorsCall)

\* The n-th contributor lookup answered 200 with a login equal to username.
Passed(n) ==
    /\ ~ContributorCalls[n].resp.error
    /\ ContributorCalls[n].resp.status = 200
    /\ username \in Range(ContributorCalls[n].resp.body)

\* C1: in both scripts and both output modes, every emitted topic has at
\* least 2 repositories in its TopicIndex list, and a topic whose list has
\* exactly one repository is never emitted.
C1_EmittedTopicsHaveTwoRepos ==
    /\ \A n \in 1..Len(Emitted) :
        /\ HasTopic(topic_to_repos, Emitted[n].topic)
        /\ Len(ReposOf(Emitted[n].topic)) >= 2
    /\ \A m \in 1..Len(topic_to_repos) :
        Len(topic_to_repos[m][2]) = 1 =>
            \A n \in 1..Len(Emitted) : Emitted[n].topic # topic_to_repos[m][1]

\* A finished run that emitted a topic and skipped a single-repository one.
C1_Witness ==
    /\ pc = "done"
    /\ Len(Emitted) >= 1
    /\ \E m \in 1..Len(topic_to_repos) : Len(topic_to_repos[m][2]) = 1

C3_OnlyStarredContributed ==
    \A m \in 1..Len(topic_to_repos) :
        \A r \in Range(topic_to_repos[m][2]) :
            LET passing == {n \in 1..Len(ContributorCalls) :
                              /\ starred_repos[n] = r
                              /\ ContributorCalls[n].req.owner = r.owner
                              /\ ContributorCalls[n].req.name = r.name
                              /\ Passed(n)}
            IN  /\ passing # {}
                /\ Count(topic_to_repos[m][2], r) <= Cardinality(passing)

\* A finished run that grouped a repository and had rejected another one on
\* a 200 response whose logins differ from username only by case.
C3_Witness ==
    /\ pc = "done"
    /\ topic_to_repos # <<>>
    /\ \E n \in 1..Len(ContributorCalls) :
        /\ ContributorCalls[n].resp.status = 200
        /\ ~Passed(n)
        /\ starred_repos[n].topics # <<>>

\* C4: a repository is in TopicIndex[t] at most once, and only if t is in
\* its effective topic list.
C4_AtMostOnce ==
    \A m \in 1..Len(topic_to_repos) :
        LET t == topic_to_repos[m][1]
            repos == topic_to_repos[m][2]
            agg == Aggregated(repos_with_stars, repos_with_topics)
        IN  \A a \in 1..Len(repos) :
                /\ \A b \in 1..Len(repos) : a # b => repos[a] # repos[b]
                /\ \E n \in 1..Len(effective) :
                    agg[n] = repos[a] /\ t \in Range(effective[n].topics)

\* C5: for a repository with declared topics, or owned by the user,
\* get_effective_topics issues no request, returns the declared topics and
\* leaves forked_topics unchanged.
C5_FallbackOnlyWhenEmptyAndForeign ==
    [][ (/\ pc = "aggregate"
         /\ script = "gen.py"
         /\ \/ repos_with_stars[j].topics # <<>>
            \/ repos_with_stars[j].owner = username)
        => /\ trace' = trace
           /\ forked_topics' = forked_topics
           /\ effective' = Append(effective,
                                  [topics |-> repos_with_stars[j].topics,
                                   wasForkFallback |-> FALSE]) ]_vars

\* get_effective_topics has returned for a repository of the user's own
\* that declares no topic, and for one that declares topics.
C5_Witness ==
    /\ script = "gen.py"
    /\ \E n \in 1..Len(effective) :
        repos_with_stars[n].topics = <<>> /\ repos_with_stars[n].owner = username
    /\ \E n \in 1..Len(effective) : repos_with_stars[n].topics # <<>>

\* The query is the distinct owners of `repos`, ascending, as user:
\* qualifiers, then topic:<t>, then fork:true.
IsOwnerQuery(q, t, repos) ==
    LET nU == Len(q) - 2 IN
    /\ nU >= 1
    /\ \A n \in 1..nU : q[n].q = "user"
    /\ {q[n].v : n \in 1..nU} = {repos[n].owner : n \in 1..Len(repos)}
    /\ \A a, b \in 1..nU : a < b => StrLess(q[a].v, q[b].v)
    /\ q[nU + 1] = [q |-> "topic", v |-> t]
    /\ q[nU + 2] = [q |-> "fork", v |-> true]

\* C6, as claimed: in every output (gen.py markdown, gen.py HTML,
\* gen_html.py), the query of an emitted topic outside forked_topics is the
\* sorted distinct owners, then topic:<t> fork:true.
C6_OwnerQueryEverywhere ==
    \A n \in 1..Len(Emitted) :
        Emitted[n].topic \notin forked_topics =>
            IsOwnerQuery(Emitted[n].query, Emitted[n].topic,
                         ReposOf(Emitted[n].topic))

\* C6, amended: that holds in both outputs of gen.py; gen_html.py emits
\* the distinct owners each once in no fixed order, then fork:true, then
\* topic:<t>.
C6_OwnerQueryGenPy ==
    \A n \in 1..Len(Emitted) :
        LET q == Emitted[n].query
            t == Emitted[n].topic
            nU == Len(q) - 2
        IN  IF script = "gen.py"
            THEN t \notin forked_topics => IsOwnerQuery(q, t, ReposOf(t))
            ELSE /\ nU >= 1
                 /\ \A a \in 1..nU : q[a].q = "user"
                 /\ {q[a].v : a \in 1..nU}
                        = {ReposOf(t)[a].owner : a \in 1..Len(ReposOf(t))}
                 /\ \A a, b \in 1..nU : a # b => q[a].v # q[b].v
                 /\ q[nU + 1] = [q |-> "fork", v |-> true]
                 /\ q[nU + 2] = [q |-> "topic", v |-> t]

\* gen.py emitted an owner query for a topic whose repositories were found
\* in descending owner order and whose first owner occurs twice.
C6_Witness ==
    /\ script = "gen.py"
    /\ \E n \in 1..Len(Emitted) :
        LET repos == ReposOf(Emitted[n].topic) IN
        /\ Emitted[n].topic \notin forked_topics
        /\ Len(repos) >= 3
        /\ StrLess(repos[2].owner, repos[1].owner)
        /\ repos[3].owner = repos[1].owner

\* C7: if some aggregated repository got topic t through the fork fallback,
\* the query emitted for t is exactly the repo:<owner>/<name> qualifiers of
\* TopicIndex[t] in list order.
C7_ForkedTopicListsRepos ==
    \A n \in 1..Len(Emitted) :
        LET q == Emitted[n].query
            t == Emitted[n].topic
            repos == ReposOf(t)
        IN  (\E e \in 1..Len(effective) :
                effective[e].wasForkFallback /\ t \in Range(effective[e].topics))
            => /\ Len(q) = Len(repos)
               /\ \A a \in 1..Len(q) :
                    /\ q[a].q = "repo"
                    /\ q[a].v = repos[a].owner \o <<47>> \o repos[a].name

\* A topic was emitted whose first repository declares it and whose last
\* repository got it through the fallback.
C7_Witness ==
    \E n \in 1..Len(Emitted) :
        LET t == Emitted[n].topic
            repos == ReposOf(t)
        IN  /\ t \in Range(repos[1].topics)
            /\ repos[Len(repos)].topics = <<>>

\* C8: a failed or non-success contributor lookup, and a not-found or
\* error-status fork lookup, never abort the run.
C8_RemoteFailureNeverAborts ==
    (/\ trace # <<>>
     /\ trace[Len(trace)].req.endpoint \in {"contributors", "repo"}
     /\ \/ trace[Len(trace)].resp.error
        \/ trace[Len(trace)].resp.status # 200)
    => pc # "crashed"

\* C9: without GITHUB_TOKEN the run issues no request and prints nothing.
C9_NoTokenNoRequest ==
    env.GITHUB_TOKEN = None => (trace = <<>> /\ out = <<>> /\ pc \in {"start", "crashed"})

\* The run without a token has failed.
C9_Witness == env.GITHUB_TOKEN = None /\ pc = "crashed"

\* The bodies of the pages answered 200 before the first other answer.
RECURSIVE PagesBefore(_)
PagesBefore(calls) ==
    IF calls = <<>> \/ Head(calls).resp.error \/ Head(calls).resp.status # 200
    THEN <<>>
    ELSE Head(calls).resp.body \o PagesBefore(Tail(calls))

\* C10: once the page walk is over, starred_repos is the pages answered 200
\* before the first error status, in order, and an error-status page lets
\* the run continue.
C10_ErrorPageEndsListing ==
    (/\ StarredCalls # <<>>
     /\ ~StarredCalls[Len(StarredCalls)].resp.error
     /\ StarredCalls[Len(StarredCalls)].resp.status # 200)
    => /\ pc # "crashed"
       /\ starred_repos = PagesBefore(StarredCalls)
====
